---- MODULE Spec2Model ----
(***************************************************************************)
(* A model of the world simulation server: the GameEngine (world state,    *)
(* addEvent, joinEntity), the websocket server's event pipeline, the       *)
(* CommandHandler with its action handlers, and the CronjobService.        *)
(*                                                                         *)
(* The server runs on one JavaScript event loop.  An operation (a join, a  *)
(* command, a scheduler tick) runs without interruption between two real   *)
(* I/O calls (a database query, a call of the language model); at such a   *)
(* call it is suspended and other operations run.  One step of the model   *)
(* is therefore: the answer of an I/O call arrives, the operation runs on  *)
(* to its next I/O call, and that call takes effect on the database.  The  *)
(* suspended operation is a stack of frames: the top frame is the I/O call *)
(* it waits for, the frames below are the callers' continuations.          *)
(***************************************************************************)
EXTENDS Integers, Sequences, FiniteSets, TLC

(***************************************************************************)
(* Bounds of the model.                                                    *)
(***************************************************************************)
MaxOps == 2
MaxClock == 2
MaxFaults == 1
MaxCrons == 1

(***************************************************************************)
(* Program constants.                                                      *)
(***************************************************************************)
RecentCap == 50
LoadLimit == 10
ScanLimit == 50
CHECK_TASKS_INTERVAL_MS == 30000
ActivityWindowMs == 30000
HearingFactor == 10
MinDurationMs == 500
MsPerUnit == 1250

WorldId == "default"
Worlds == {"default", "other"}
EntityIds == {"a", "b", "c"}
EntityOrder == <<"a", "b", "c">>
Residents == {"a", "b"}
Origin == <<0, 0, 0>>
Positions == {Origin, <<3, 4, 0>>, <<0, 0, 12>>}
Volumes == {1, 5}
MoveTargets == {<<3, 4, 0>>}
CronIntervals == {30, 60}
CronOwners == {"a"}
CheckVolumes == {5}
ClockStep == CHECK_TASKS_INTERVAL_MS

OpIds == 1..MaxOps
CronIds == 1..MaxCrons
NoId == <<>>
NoPos == <<>>
NoSuchItem == <<0, 0>>

VARIABLES
  now,            \* Date.now(), in ms
  faultsLeft,     \* how many queries the database will still reject
  lastFire,       \* the time of the interval timer's last firing
  memEnt,         \* GameEngine.gameState.entities
  recentEvents,   \* GameEngine.gameState.recentEvents
  dbEnt,          \* tables entities and item_instances
  dbEvents,       \* table events
  dbMem,          \* table character_memories
  cron,           \* table character_cronjobs
  clients,        \* GameWebSocketServer.clients: the entity ids joined
  broadcast,      \* the events broadcastEvent has sent to the viewers
  emitted,        \* the error events handed to onErrorEvent
  persistFailed,  \* the events whose saveEvent was rejected
  ops,            \* the operations, each with its stack of frames
  closed          \* what the SIGINT handler has closed so far, in order

vars == <<now, faultsLeft, lastFire, memEnt, recentEvents, dbEnt, dbEvents,
          dbMem, cron, clients, broadcast, emitted, persistFailed, ops, closed>>

Closed(x) == \E i \in 1..Len(closed) : closed[i] = x

(***************************************************************************)
(* Values.                                                                 *)
(***************************************************************************)
Sq(x) == x * x

(* Coordinates are integers; two values stand for what JSON.parse can
   also deliver: Infinity, the number a literal like 1e999 parses to, and
   Undefined, a coordinate that is absent or no number. *)
Infinity == 1000000
Undefined == 0 - 1

IsNumber(x) == x # Undefined

IsFinite(p) == \A i \in 1..3 : p[i] # Infinity /\ p[i] # Undefined

(* The squared distance; any arithmetic with Infinity gives Infinity (or
   NaN, which compares like it in every test of the program). *)
Dist2(p, q) ==
  IF IsFinite(p) /\ IsFinite(q)
  THEN Sq(p[1] - q[1]) + Sq(p[2] - q[2]) + Sq(p[3] - q[3])
  ELSE Infinity

RECURSIVE SqrtBetween(_, _, _)
SqrtBetween(x, lo, hi) ==
  IF lo >= hi THEN lo
  ELSE LET mid == (lo + hi + 1) \div 2
       IN  IF Sq(mid) <= x THEN SqrtBetween(x, mid, hi)
           ELSE SqrtBetween(x, lo, mid - 1)

(* 46340 is the largest integer whose square fits in 32 bits. *)
FloorSqrt(x) == SqrtBetween(x, 0, IF x < 46340 THEN x ELSE 46340)

RoundSqrt(x) == LET r == FloorSqrt(x) IN IF x - Sq(r) > r THEN r + 1 ELSE r

Max(x, y) == IF x >= y THEN x ELSE y

calculateMovementDuration(from, to) ==
  IF Dist2(from, to) = Infinity THEN Infinity
  ELSE Max(MinDurationMs, RoundSqrt(Dist2(from, to) * Sq(MsPerUnit)))

NoEntity == [present |-> FALSE, pos |-> Origin, items |-> {}]

NewEntity == [present |-> TRUE, pos |-> Origin, items |-> {}]

BaseEvent(id, kind, ent, world, ts) ==
  [id |-> id, kind |-> kind, ent |-> ent, world |-> world, ts |-> ts,
   from |-> NoPos, to |-> NoPos, dur |-> 0, item |-> NoId, vol |-> 0,
   sev |-> "", cause |-> NoId, d2 |-> 0, task |-> 0, by |-> ""]

NoEvent == BaseEvent(NoId, "none", "", "", 0)

Frame(t, ev) ==
  [t |-> t, ev |-> ev, evs |-> <<>>, ids |-> <<>>, ok |-> TRUE,
   pos |-> NoPos, ctx |-> "", row |-> NoEntity, rows |-> <<>>,
   item |-> NoId, vol |-> 0, task |-> 0, acts |-> {}]

NoDecision == [kind |-> "none", pos |-> NoPos, vol |-> 0, item |-> NoId]

(* GameEngine.getGameState: { ...entities } is a new map with the same
   keys, holding the engine's own entity objects; `entities` records what
   those objects held when the snapshot was returned. *)
NoGameState == [keys |-> {}, entities |-> [e \in EntityIds |-> NoEntity]]

getGameState == [keys |-> {e \in EntityIds : memEnt[e].present}, entities |-> memEnt]

NoOp ==
  [type |-> "none", ent |-> "", world |-> "", st |-> <<>>, res |-> <<>>,
   n |-> 0, snap |-> FALSE, dec |-> NoDecision, returned |-> FALSE,
   failed |-> FALSE, notified |-> FALSE, joined |-> FALSE, dropMiss |-> FALSE,
   due |-> <<>>, owners |-> [c \in CronIds |-> ""], fetchedAt |-> 0,
   steps |-> 0, gs |-> NoGameState, writes |-> <<>>]

Started == {o \in OpIds : ops[o].type # "none"}

NextOp == Cardinality(Started) + 1

(* Database.getRecentEvents: the `limit` newest events of the world,
   newest first. *)
RECURSIVE NewestFirst(_)
NewestFirst(events) ==
  IF events = {} THEN <<>>
  ELSE LET e == CHOOSE x \in events : \A y \in events : x.ts >= y.ts
       IN  <<e>> \o NewestFirst(events \ {e})

getRecentEvents(events, limit) ==
  LET all == NewestFirst({e \in events : e.world = WorldId})
  IN  IF Len(all) <= limit THEN all ELSE SubSeq(all, 1, limit)

(* The database an earlier run of the server left behind: nothing, or the
   entities a and b (the residents; c is an id nobody has used), b perhaps moved away, with the events of that run. *)
PastEvents(p) ==
  {[BaseEvent(<<0, 1>>, "spawn", "a", WorldId, 0 - 3 * ClockStep) EXCEPT !.to = Origin],
   [BaseEvent(<<0, 2>>, "spawn", "b", WorldId, 0 - 2 * ClockStep) EXCEPT !.to = Origin]}
    \cup (IF p = Origin THEN {}
          ELSE {[BaseEvent(<<0, 3>>, "move", "b", WorldId, 0 - ClockStep)
                   EXCEPT !.from = Origin, !.to = p,
                          !.dur = calculateMovementDuration(Origin, p)]})

NoCronjob == [char |-> "", interval |-> 0, last |-> 0, active |-> FALSE]

PastCronjobs ==
  {NoCronjob}
    \cup {[char |-> e, interval |-> i, last |-> 0, active |-> a] :
            e \in CronOwners, i \in CronIntervals, a \in BOOLEAN}

(* The state after GameEngine.initialize: loadGameState has read the
   entities and the 10 newest events; no client, no operation yet. *)
Loaded ==
  /\ now = 0
  /\ lastFire = 0
  /\ memEnt = dbEnt
  /\ recentEvents = getRecentEvents(dbEvents, LoadLimit)
  /\ dbMem = {}
  /\ clients = {}
  /\ broadcast = {}
  /\ emitted = {}
  /\ persistFailed = {}
  /\ ops = [o \in OpIds |-> NoOp]
  /\ closed = <<>>

Populated(p) ==
  /\ dbEnt = [e \in EntityIds |->
                IF e \in Residents
                THEN [NewEntity EXCEPT !.pos = IF e = "b" THEN p ELSE Origin]
                ELSE NoEntity]
  /\ dbEvents = PastEvents(p)

Init ==
  /\ \/ dbEnt = [e \in EntityIds |-> NoEntity] /\ dbEvents = {}
     \/ \E p \in Positions : Populated(p)
  /\ cron = [c \in CronIds |-> NoCronjob]
  /\ faultsLeft = MaxFaults
  /\ Loaded

InitScheduler ==
  /\ Populated(Origin)
  /\ cron \in [CronIds -> PastCronjobs]
  /\ faultsLeft = 0
  /\ Loaded

(***************************************************************************)
(* The state an operation works on while it runs: its own record and the   *)
(* shared state.  The operators below take such a state and return the     *)
(* state after a piece of code has run.                                    *)
(***************************************************************************)
State(o, op, up) ==
  [o |-> o, op |-> [op EXCEPT !.steps = @ + 1], now |-> now, dbUp |-> up, mem |-> memEnt,
   recent |-> recentEvents, dbEnt |-> dbEnt, dbEvents |-> dbEvents,
   dbMem |-> dbMem, cron |-> cron, clients |-> clients, bc |-> broadcast,
   emitted |-> emitted, pfail |-> persistFailed]

Top(S) == Head(S.op.st)

Pop(S) == [S EXCEPT !.op.st = Tail(@)]

Replace(S, frames) == [S EXCEPT !.op.st = frames \o Tail(@)]

FreshId(S) == <<S.o, S.op.n + 1>>

Bump(S) == [S EXCEPT !.op.n = @ + 1]

Failed(S) == [S EXCEPT !.op.failed = TRUE]

(* Database.saveEvent: the INSERT, rejected while the database is down. *)
saveEvent(S, e) ==
  IF S.dbUp THEN [S EXCEPT !.dbEvents = @ \cup {e}]
  ELSE [S EXCEPT !.pfail = @ \cup {e}]

(* Database.updateEntityPosition: the UPDATE changes the row if there is
   one; the operation keeps the list of the positions it has written. *)
updateEntityPosition(S, ent, to) ==
  IF S.dbUp /\ S.dbEnt[ent].present
  THEN [S EXCEPT !.dbEnt[ent].pos = to, !.op.writes = Append(@, to)]
  ELSE S

(* Database.saveMemory *)
saveMemory(S, char, world, text, rel) ==
  IF S.dbUp
  THEN [S EXCEPT !.dbMem = @ \cup {[char |-> char, world |-> world, text |-> text,
                                    op |-> S.o, rel |-> rel]}]
  ELSE S

(* GameEngine.addEvent, lines 876-880: prepend, keep the first 50. *)
Unshift(S, e) ==
  LET r == <<e>> \o S.recent
  IN  [S EXCEPT !.recent = IF Len(r) > RecentCap THEN SubSeq(r, 1, RecentCap) ELSE r]

(* GameWebSocketServer.broadcastEvent: the event goes to every open socket. *)
broadcastEvent(S, e) == [S EXCEPT !.bc = @ \cup {e}]

(* ErrorService.createCharacterError *)
createCharacterError(S, ent, world, severity) ==
  [BaseEvent(FreshId(S), "characterError", ent, world, S.now) EXCEPT !.sev = severity]

(* GameWebSocketServer.processEvents: one call per event, in order. *)
processEvents(events) ==
  [i \in 1..Len(events) |->
     [Frame("pge", events[i]) EXCEPT
        !.ctx = IF events[i].kind = "characterError" THEN "pce" ELSE "pge"]]

(* onErrorEvent(errorEvent) of index.ts: processGameEngineEvent(errorEvent),
   after which the caller goes on with the frames `then`. *)
onErrorEvent(S, ent, world, severity, then) ==
  LET err == createCharacterError(S, ent, world, severity)
      S1  == Bump(S)
  IN  Replace([S1 EXCEPT !.emitted = @ \cup {err}],
              <<[Frame("pge", err) EXCEPT !.ctx = "pge"]>> \o then)

(* The catch of CommandHandler.processCommand, lines 137-166. *)
processCommandCatch(S) ==
  onErrorEvent(S, S.op.ent, S.op.world, "high", <<Frame("cmd_catch", NoEvent)>>)

(* The catch of CommandHandler.handleEvent, lines 225-242, after which
   handleEvent returns no events to its caller. *)
handleEventCatch(S, ent, world, then) == onErrorEvent(S, ent, world, "high", then)

(* GameEngine.addEvent up to its saveEvent, called with event e by the frame
   on top, which becomes the frame waiting for the INSERT. *)
addEventCall(S, e, waiting) ==
  saveEvent(Replace(S, <<[waiting EXCEPT !.ok = S.dbUp]>>), e)

(* GameWebSocketServer.processGameEngineEvent and processCharacterErrorEvent,
   up to the first I/O call. *)
processGameEngineEvent(S) ==
  LET f == Top(S)
      e == f.ev
  IN  IF f.ctx = "pce"
      THEN IF e.world # WorldId THEN Pop(S)
           ELSE addEventCall(S, e, [Frame("sv", e) EXCEPT !.ctx = "pce"])
      ELSE IF e.kind = "checkTasks"
      THEN \* handleCheckTasksEvent: three reads, then the language model
           Replace(S, <<[Frame("ct_llm", e) EXCEPT !.ok = S.dbUp]>>)
      ELSE IF e.world # WorldId
      THEN Pop(broadcastEvent(S, e))
      ELSE addEventCall(S, e, [Frame("sv", e) EXCEPT !.ctx = "pge"])

(* GameEngine.processSpeakEvent: the loop over the entities, up to the
   addEvent of the next heard event. *)
processSpeakEvent(S) ==
  LET f == Top(S)
      e == f.ev
  IN  IF f.ids = <<>> THEN Pop(broadcastEvent(S, e))
      ELSE LET x    == Head(f.ids)
               rest == [f EXCEPT !.ids = Tail(f.ids)]
               d2   == Dist2(S.mem[e.ent].pos, S.mem[x].pos)
           IN  IF x = e.ent \/ d2 > Sq(e.vol * HearingFactor)
               THEN Replace(S, <<rest>>)
               ELSE LET h == [BaseEvent(FreshId(S), "heard", x, WorldId, S.now)
                                EXCEPT !.cause = e.id, !.d2 = d2, !.vol = e.vol,
                                       !.by = "engine"]
                    IN  addEventCall(Bump(S), h,
                                     [rest EXCEPT !.t = "sv_h", !.evs = <<h>>])

(* processEvent with a heard event treated like a speak event. *)
processEventHeardSpeaks(S, e, ctx) ==
  LET done == IF ctx = "pge" THEN Pop(broadcastEvent(S, e)) ELSE Pop(S)
  IN  CASE e.kind = "move" ->
             IF ~S.mem[e.ent].present \/ e.to = NoPos THEN done
             ELSE updateEntityPosition(
                    Replace([S EXCEPT !.mem[e.ent].pos = e.to],
                            <<[Frame("mv_upd", e) EXCEPT !.ok = S.dbUp, !.ctx = ctx]>>),
                    e.ent, e.to)
        [] e.kind \in {"speak", "heard"} ->
             IF ~S.mem[e.ent].present THEN done
             ELSE Replace(S, <<[Frame("spk", e) EXCEPT
                                  !.ids = SelectSeq(EntityOrder,
                                                    LAMBDA x : S.mem[x].present)]>>)
        [] OTHER -> done

(* Who is within hearing of the speak event e in the world state as it
   is now, and at which squared distance. *)
Hearers(S, e) ==
  {[ent |-> x, d2 |-> Dist2(S.mem[e.ent].pos, S.mem[x].pos)] :
     x \in {y \in EntityIds \ {e.ent} :
              /\ S.mem[y].present
              /\ Dist2(S.mem[e.ent].pos, S.mem[y].pos) <= Sq(e.vol * HearingFactor)}}

(* GameEngine.processEvent for an event just added to the recent buffer.
   Object.entries fixes the entities processSpeakEvent will visit; the
   frame also notes who is within hearing at that moment. *)
processEvent(S, e, ctx) ==
  LET done == IF ctx = "pge" THEN Pop(broadcastEvent(S, e)) ELSE Pop(S)
  IN  CASE e.kind = "move" ->
             IF ~S.mem[e.ent].present \/ e.to = NoPos THEN done
             ELSE updateEntityPosition(
                    Replace([S EXCEPT !.mem[e.ent].pos = e.to],
                            <<[Frame("mv_upd", e) EXCEPT !.ok = S.dbUp, !.ctx = ctx]>>),
                    e.ent, e.to)
        [] e.kind = "speak" ->
             IF ~S.mem[e.ent].present THEN done
             ELSE Replace(S, <<[Frame("spk", e) EXCEPT
                                  !.ids = SelectSeq(EntityOrder,
                                                    LAMBDA x : S.mem[x].present),
                                  !.acts = Hearers(S, e)]>>)
        [] OTHER -> done

(***************************************************************************)
(* CommandHandler.processCommand and the action handlers.                  *)
(***************************************************************************)
Decisions ==
  {NoDecision}
    \cup {[NoDecision EXCEPT !.kind = "move", !.pos = p] : p \in MoveTargets}
    \cup {[NoDecision EXCEPT !.kind = "speak", !.vol = v] : v \in Volumes}
    \cup {[NoDecision EXCEPT !.kind = "pickup"]}
    \cup {[NoDecision EXCEPT !.kind = "unknown"]}
    \cup {[NoDecision EXCEPT !.kind = "drop", !.item = i] :
            i \in {NoSuchItem} \cup UNION {dbEnt[e].items : e \in EntityIds}}

(* Move decisions whose target is absent, has a coordinate that is no
   number, or has an infinite coordinate. *)
InvalidTargets == {NoPos, <<Undefined, 0, 0>>, <<Infinity, 0, 0>>}

InvalidMoveDecisions ==
  {[NoDecision EXCEPT !.kind = "move", !.pos = p] : p \in InvalidTargets}

(* What the language model may decide at a scheduled check. *)
CheckDecisions ==
  {NoDecision}
    \cup {[NoDecision EXCEPT !.kind = "speak", !.vol = v] : v \in CheckVolumes}
    \cup {[NoDecision EXCEPT !.kind = "checkTasks"]}

(* The move decisions of a scheduled check, lines 109-116. *)
CheckMoveDecisions == {[NoDecision EXCEPT !.kind = "move", !.pos = p] : p \in MoveTargets}

(* A throw inside handleMoveDecision reaches the catch of its caller:
   processCommand, or handleCheckTasksEvent with its error memory. *)
moveThrows(S) ==
  LET f == Top(S)
  IN  IF f.ctx = "cmd" THEN processCommandCatch(S)
      ELSE saveMemory(Replace(S, <<[Frame("ct_errmem", f.ev) EXCEPT !.ok = S.dbUp]>>),
                      f.ev.ent, f.ev.world, "confused", f.ev.id)

(* handleMoveDecision, lines 18-26: the target exists and each of its
   coordinates has type number. *)
validTarget(target) ==
  IF target = NoPos THEN FALSE ELSE \A i \in 1..3 : IsNumber(target[i])

(* MoveEventHandler.handleMoveDecision up to its getEntity; a target that
   fails the validation throws to the caller's catch. *)
handleMoveDecision(S, ev, ctx, target) ==
  LET who == IF ctx = "cmd" THEN S.op.ent ELSE ev.ent
  IN  IF ~validTarget(target)
      THEN IF ctx = "cmd" THEN processCommandCatch(S)
           ELSE saveMemory(Replace(S, <<[Frame("ct_errmem", ev) EXCEPT !.ok = S.dbUp]>>),
                           ev.ent, ev.world, "confused", ev.id)
      ELSE Replace(S, <<[Frame("hm_get", ev) EXCEPT
                           !.ctx = ctx, !.pos = target, !.ok = S.dbUp,
                           !.row = S.dbEnt[who]]>>)

(* handleMoveDecision from the answer of getEntity to updateEntityPosition. *)
moveGotEntity(S) ==
  LET f     == Top(S)
      who   == IF f.ctx = "cmd" THEN S.op.ent ELSE f.ev.ent
      world == IF f.ctx = "cmd" THEN S.op.world ELSE f.ev.world
  IN  IF ~f.ok \/ ~f.row.present THEN moveThrows(S)
      ELSE LET mv == [BaseEvent(FreshId(S), "move", who, world, S.now)
                        EXCEPT !.from = f.row.pos, !.to = f.pos,
                               !.dur = calculateMovementDuration(f.row.pos, f.pos)]
           IN  updateEntityPosition(
                 Replace(Bump(S), <<[f EXCEPT !.t = "hm_upd", !.evs = <<mv>>,
                                              !.ok = S.dbUp]>>),
                 who, f.pos)

(* processCommand putting the handler's events in front of the result. *)
commandAfterHandlerPrepends(S) ==
  LET f  == Top(S)
      S1 == [S EXCEPT !.op.res = f.evs \o @]
  IN  saveMemory(Replace(S1, <<[Frame("pc_mem", NoEvent) EXCEPT !.ok = S.dbUp]>>),
                 S.op.ent, S.op.world, "instruction", NoId)

(* processCommand, lines 119-134: the handler's events join the result,
   then the instruction memory is saved. *)
commandAfterHandler(S) ==
  LET f  == Top(S)
      S1 == [S EXCEPT !.op.res = @ \o f.evs]
  IN  saveMemory(Replace(S1, <<[Frame("pc_mem", NoEvent) EXCEPT !.ok = S.dbUp]>>),
                 S.op.ent, S.op.world, "instruction", NoId)

(* handleCheckTasksEvent, lines 134-145: the memory of the decision. *)
checkTasksAfterAction(S, ev, events) ==
  saveMemory(Replace(S, <<[Frame("ct_mem", ev) EXCEPT !.evs = events, !.ok = S.dbUp]>>),
             ev.ent, ev.world, "decision", ev.id)

(* handleMoveDecision after updateEntityPosition: back in the caller. *)
moveUpdated(S) ==
  LET f == Top(S)
  IN  IF ~f.ok THEN moveThrows(S)
      ELSE IF f.ctx = "cmd"
      THEN Replace(S, <<[Frame("cmd_after", NoEvent) EXCEPT !.evs = f.evs]>>)
      ELSE checkTasksAfterAction(S, f.ev, f.evs)

(* handleEvent without the default branch of its switch. *)
handleEventNoDefault(S, d) ==
  LET after == Frame("cmd_after", NoEvent)
      get(t) == Replace(S, <<[Frame(t, NoEvent) EXCEPT
                                !.ok = S.dbUp, !.row = S.dbEnt[S.op.ent],
                                !.vol = d.vol, !.item = d.item]>>)
  IN  CASE d.kind = "speak"  -> get("hs_get")
        [] d.kind = "pickup" -> get("hp_get")
        [] d.kind = "drop"   -> get("hd_get")
        [] OTHER -> Replace(S, <<after>>)

(* CommandHandler.handleEvent for the event built from a decision, up to
   the handler's first query.  The language model's functionCall is any
   string: one that is no case of the switch takes the default branch. *)
handleEvent(S, d) ==
  LET after == Frame("cmd_after", NoEvent)
      get(t) == Replace(S, <<[Frame(t, NoEvent) EXCEPT
                                !.ok = S.dbUp, !.row = S.dbEnt[S.op.ent],
                                !.vol = d.vol, !.item = d.item]>>)
  IN  CASE d.kind = "speak"  -> get("hs_get")
        [] d.kind = "pickup" -> get("hp_get")
        [] d.kind = "drop"   -> get("hd_get")
        [] OTHER -> onErrorEvent(S, S.op.ent, S.op.world, "medium", <<after>>)

(* processCommand treating a missing decision like an exception. *)
decisionReturnsAsException(S, d) ==
  LET S1 == [S EXCEPT !.op.dec = d]
  IN  IF d.kind = "none" THEN processCommandCatch(S1)
      ELSE IF d.kind = "move"
      THEN handleMoveDecision(S1, NoEvent, "cmd", d.pos)
      ELSE handleEvent(Bump(S1), d)

(* processCommand returning on a missing decision without an error event. *)
decisionReturnsSilent(S, d) ==
  LET S1 == [S EXCEPT !.op.dec = d]
  IN  IF d.kind = "none"
      THEN Replace(S1, <<Frame("cmd_ret", NoEvent)>>)
      ELSE IF d.kind = "move"
      THEN handleMoveDecision(S1, NoEvent, "cmd", d.pos)
      ELSE handleEvent(Bump(S1), d)

(* processCommand from the decision of the language model on. *)
decisionReturns(S, d) ==
  LET S1 == [S EXCEPT !.op.dec = d]
  IN  IF d.kind = "none"
      THEN onErrorEvent(S1, S.op.ent, S.op.world, "low", <<Frame("cmd_ret", NoEvent)>>)
      ELSE IF d.kind = "move"
      THEN handleMoveDecision(S1, NoEvent, "cmd", d.pos)
      ELSE handleEvent(Bump(S1), d)

(* A throw inside a handler called by handleEvent. *)
handlerThrows(S) ==
  handleEventCatch(S, S.op.ent, S.op.world, <<Frame("cmd_after", NoEvent)>>)

(* SpeakEventHandler.handleSpeakDecision: after getEntity(speaker), the
   query getEntitiesByWorld. *)
speakGotSpeaker(S) ==
  LET f == Top(S)
  IN  IF ~f.ok \/ ~f.row.present THEN handlerThrows(S)
      ELSE LET sp == [BaseEvent(FreshId(S), "speak", S.op.ent, S.op.world, S.now)
                        EXCEPT !.vol = f.vol]
               found == IF S.op.world = WorldId
                        THEN SelectSeq(EntityOrder, LAMBDA x : S.dbEnt[x].present)
                        ELSE <<>>
           IN  Replace(Bump(S),
                       <<[f EXCEPT !.t = "hs_all", !.ev = sp, !.ok = S.dbUp,
                                   !.rows = [i \in 1..Len(found) |->
                                               [id |-> found[i],
                                                pos |-> S.dbEnt[found[i]].pos]]]>>)

(* handleSpeakDecision, lines 94-118: one heard event per other entity
   within the volume. *)
RECURSIVE heardEvents(_, _, _, _)
heardEvents(S, f, rows, n) ==
  IF rows = <<>> THEN <<>>
  ELSE LET r  == Head(rows)
           d2 == Dist2(f.row.pos, r.pos)
       IN  IF r.id = S.op.ent \/ d2 > Sq(f.vol)
           THEN heardEvents(S, f, Tail(rows), n)
           ELSE <<[BaseEvent(<<S.o, n + 1>>, "heard", r.id, S.op.world, S.now)
                     EXCEPT !.cause = f.ev.id, !.d2 = d2, !.vol = f.vol,
                            !.by = "handler"]>>
                \o heardEvents(S, f, Tail(rows), n + 1)

speakGotWorld(S) ==
  LET f == Top(S)
  IN  IF ~f.ok THEN handlerThrows(S)
      ELSE LET hs == heardEvents(S, f, f.rows, S.op.n)
           IN  Replace([S EXCEPT !.op.n = @ + Len(hs)],
                       <<[Frame("cmd_after", NoEvent) EXCEPT !.evs = <<f.ev>> \o hs]>>)

(* Database.addItemInstanceToEntity: the INSERT is rejected when the row
   of the entity is gone (the foreign key of item_instances). *)
itemInsertable(S, ent) == S.dbUp /\ S.dbEnt[ent].present

addItemInstanceToEntity(S, ent, item) ==
  IF itemInsertable(S, ent) THEN [S EXCEPT !.dbEnt[ent].items = @ \cup {item}] ELSE S

(* Database.removeItemInstanceFromEntity: DELETE ... WHERE id = item *)
removeItemInstanceFromEntity(S, item) ==
  IF S.dbUp
  THEN [S EXCEPT !.dbEnt = [x \in EntityIds |-> [@[x] EXCEPT !.items = @ \ {item}]]]
  ELSE S

(* PickupEventHandler.handlePickupDecision after getEntity. *)
pickupGotEntity(S) ==
  LET f == Top(S)
  IN  IF ~f.ok \/ ~f.row.present THEN handlerThrows(S)
      ELSE LET item == FreshId(S)
               S1   == Bump(S)
               pk   == [BaseEvent(FreshId(S1), "pickup", S.op.ent, S.op.world, S.now)
                          EXCEPT !.item = item]
           IN  addItemInstanceToEntity(
                 Replace(Bump(S1), <<[f EXCEPT !.t = "hp_add", !.evs = <<pk>>,
                                               !.ok = itemInsertable(S, S.op.ent)]>>),
                 S.op.ent, item)

(* handleDropDecision without the check of lines 21-24. *)
dropGotEntityUnchecked(S) ==
  LET f == Top(S)
  IN  IF ~f.ok \/ ~f.row.present THEN handlerThrows(S)
      ELSE LET dr == [BaseEvent(FreshId(S), "drop", S.op.ent, S.op.world, S.now)
                        EXCEPT !.item = f.item, !.to = f.row.pos]
           IN  removeItemInstanceFromEntity(
                 Replace(Bump([S EXCEPT !.op.dropMiss = f.item \notin f.row.items]),
                         <<[f EXCEPT !.t = "hd_rm", !.evs = <<dr>>, !.ok = S.dbUp]>>),
                 f.item)

(* DropEventHandler.handleDropDecision after getEntity. *)
dropGotEntity(S) ==
  LET f == Top(S)
  IN  IF ~f.ok \/ ~f.row.present THEN handlerThrows(S)
      ELSE IF f.item \notin f.row.items
      THEN handlerThrows([S EXCEPT !.op.dropMiss = TRUE])
      ELSE LET dr == [BaseEvent(FreshId(S), "drop", S.op.ent, S.op.world, S.now)
                        EXCEPT !.item = f.item, !.to = f.row.pos]
           IN  removeItemInstanceFromEntity(
                 Replace(Bump(S), <<[f EXCEPT !.t = "hd_rm", !.evs = <<dr>>,
                                              !.ok = S.dbUp]>>),
                 f.item)

(* A handler's last query answers: the handler returns its events. *)
handlerWrote(S) ==
  LET f == Top(S)
  IN  IF ~f.ok THEN handlerThrows(S)
      ELSE Replace(S, <<[Frame("cmd_after", NoEvent) EXCEPT !.evs = f.evs]>>)

(* processCommand returns: handleCommand, lines 425-429, processes the
   events in order. *)
commandReturns(S) ==
  Replace([S EXCEPT !.op.returned = TRUE], processEvents(S.op.res))

(* processCommand, line 134: saveMemory(instructionMemory) answers. *)
instructionMemorySaved(S) ==
  IF Top(S).ok THEN Replace(S, <<Frame("cmd_ret", NoEvent)>>)
  ELSE processCommandCatch(S)

(* processCommand, lines 155-166: the error memory after the catch. *)
commandCatchMemory(S) ==
  saveMemory(Replace(S, <<[Frame("pc_errmem", NoEvent) EXCEPT !.ok = S.dbUp]>>),
             S.op.ent, S.op.world, "error", NoId)

(* saveMemory(errorMemory) answers; its failure leaves processCommand and
   reaches the catch of handleCommand, lines 432-437. *)
errorMemorySaved(S) ==
  IF Top(S).ok THEN Replace(S, <<Frame("cmd_ret", NoEvent)>>)
  ELSE [S EXCEPT !.op.st = <<>>, !.op.notified = TRUE]

(***************************************************************************)
(* The answers of the queries of the event pipeline.                       *)
(***************************************************************************)
(* addEvent with the event put into the recent buffer before its
   saveEvent has answered. *)
eventSavedUnshiftsFirst(S) ==
  LET f == Top(S)
  IN  IF ~f.ok THEN Pop(Failed(Unshift(S, f.ev)))
      ELSE processEvent(Unshift(S, f.ev), f.ev, f.ctx)

(* GameEngine.addEvent after saveEvent, called by processGameEngineEvent;
   a rejection is caught and logged at lines 647-649. *)
eventSaved(S) ==
  LET f == Top(S)
  IN  IF ~f.ok THEN Pop(Failed(S))
      ELSE processEvent(Unshift(S, f.ev), f.ev, f.ctx)

(* processMovementEvent after updateEntityPosition. *)
positionApplied(S) ==
  LET f == Top(S)
  IN  IF ~f.ok THEN Pop(Failed(S))
      ELSE IF f.ctx = "pge" THEN Pop(broadcastEvent(S, f.ev)) ELSE Pop(S)

(* processSpeakEvent after the addEvent of a heard event. *)
heardSaved(S) ==
  LET f == Top(S)
  IN  IF ~f.ok THEN Pop(Failed(S))
      ELSE Replace(Unshift(S, f.evs[1]), <<[f EXCEPT !.t = "spk", !.evs = <<>>]>>)

(* processGameEngineEvent for a checkTasks event, lines 625-626: after
   handleEvent returned `events`, addEvent(event). *)
checkTasksAdd(S) ==
  LET f == Top(S)
  IN  addEventCall(S, f.ev, [f EXCEPT !.t = "sv_ct"])

(* Lines 629-636: the resulting events are processed, then the checkTasks
   event is broadcast. *)
checkTasksSaved(S) ==
  LET f == Top(S)
  IN  IF ~f.ok THEN Pop(Failed(S))
      ELSE Replace(Unshift(S, f.ev), processEvents(f.evs) \o <<Frame("bc", f.ev)>>)

(* handleCheckTasksEvent with the test of line 107 reduced to `decision`. *)
checkTasksDecidedAnyKind(S0, d) ==
  LET S == [S0 EXCEPT !.op.dec = d]
      f == Top(S)
      e == f.ev
  IN  IF ~f.ok
      THEN saveMemory(Replace(S, <<[Frame("ct_errmem", e) EXCEPT !.ok = S.dbUp]>>),
                      e.ent, e.world, "confused", e.id)
      ELSE IF d.kind = "none"
      THEN saveMemory(Replace(S, <<[Frame("ct_mem", e) EXCEPT !.ok = S.dbUp]>>),
                      e.ent, e.world, "observe", e.id)
      ELSE IF d.kind = "move"
      THEN handleMoveDecision(S, e, "ct", d.pos)
      ELSE LET a == [BaseEvent(FreshId(S), d.kind, e.ent, e.world, S.now)
                       EXCEPT !.vol = d.vol, !.item = d.item, !.by = "checkTasks"]
           IN  checkTasksAfterAction(Bump(S), e, <<a>>)

(* handleCheckTasksEvent building the event of a move decision like that
   of any other decision, from the parameters of the decision. *)
checkTasksDecidedMoveDirect(S0, d) ==
  LET S == [S0 EXCEPT !.op.dec = d]
      f == Top(S)
      e == f.ev
  IN  IF ~f.ok
      THEN saveMemory(Replace(S, <<[Frame("ct_errmem", e) EXCEPT !.ok = S.dbUp]>>),
                      e.ent, e.world, "confused", e.id)
      ELSE IF d.kind \in {"none", "checkTasks"}
      THEN saveMemory(Replace(S, <<[Frame("ct_mem", e) EXCEPT !.ok = S.dbUp]>>),
                      e.ent, e.world, "observe", e.id)
      ELSE LET a == [BaseEvent(FreshId(S), d.kind, e.ent, e.world, S.now)
                       EXCEPT !.vol = d.vol, !.item = d.item, !.by = "checkTasks"]
           IN  checkTasksAfterAction(Bump(S), e, <<a>>)

(* handleCheckTasksEvent from the decision of the language model on; the
   operation keeps the decision until the handler returns. *)
checkTasksDecided(S0, d) ==
  LET S == [S0 EXCEPT !.op.dec = d]
      f == Top(S)
      e == f.ev
  IN  IF ~f.ok
      THEN saveMemory(Replace(S, <<[Frame("ct_errmem", e) EXCEPT !.ok = S.dbUp]>>),
                      e.ent, e.world, "confused", e.id)
      ELSE IF d.kind \in {"none", "checkTasks"}
      THEN saveMemory(Replace(S, <<[Frame("ct_mem", e) EXCEPT !.ok = S.dbUp]>>),
                      e.ent, e.world, "observe", e.id)
      ELSE IF d.kind = "move"
      THEN handleMoveDecision(S, e, "ct", d.pos)
      ELSE LET a == [BaseEvent(FreshId(S), d.kind, e.ent, e.world, S.now)
                       EXCEPT !.vol = d.vol, !.item = d.item, !.by = "checkTasks"]
           IN  checkTasksAfterAction(Bump(S), e, <<a>>)

(* saveMemory of the decision or observation answers; a rejection goes
   to the catch at lines 165-179, which saves the error memory. *)
checkTasksMemorySaved(S) ==
  LET f == Top(S)
  IN  IF f.ok THEN Replace([S EXCEPT !.op.dec = NoDecision], <<[f EXCEPT !.t = "ct_add"]>>)
      ELSE saveMemory(Replace(S, <<[f EXCEPT !.t = "ct_errmem", !.ok = S.dbUp]>>),
                      f.ev.ent, f.ev.world, "confused", f.ev.id)

(* saveMemory(errorMemory) answers; a rejection leaves the handler and
   is caught by handleEvent, which returns no events. *)
checkTasksErrorMemorySaved(S0) ==
  LET S == [S0 EXCEPT !.op.dec = NoDecision]
      f == Top(S)
  IN  IF f.ok THEN Replace(S, <<[f EXCEPT !.t = "ct_add"]>>)
      ELSE handleEventCatch(S, f.ev.ent, f.ev.world,
                            <<[f EXCEPT !.t = "ct_add", !.evs = <<>>, !.ok = TRUE]>>)

(***************************************************************************)
(* CronjobService.executeScheduledTasks.                                   *)
(***************************************************************************)
(* Database.getCronjobsDueForExecution: the active cronjobs whose interval
   has elapsed, ordered by last_executed. *)
IsDue(c, t) == c.active /\ (t - c.last) >= c.interval * 1000

RECURSIVE SortByLast(_, _)
SortByLast(cr, ids) ==
  IF ids = {} THEN <<>>
  ELSE LET c == CHOOSE x \in ids : \A y \in ids : cr[x].last <= cr[y].last
       IN  <<c>> \o SortByLast(cr, ids \ {c})

getCronjobsDueForExecution(cr, t) ==
  SortByLast(cr, {c \in CronIds : IsDue(cr[c], t)})

(* executeScheduledTasks, lines 169-190: the next due cronjob, with the
   character id of the row as it was fetched, or after the last one the two
   queries of lines 214-215. *)
tickLoop(S) ==
  LET f == Top(S)
  IN  IF f.ids = <<>>
      THEN Replace(S, <<[Frame("t_scan", NoEvent) EXCEPT
                           !.ok = S.dbUp,
                           !.ids = SelectSeq(EntityOrder, LAMBDA x : S.dbEnt[x].present),
                           !.acts = LET scan == getRecentEvents(S.dbEvents, ScanLimit)
                                    IN  {[ent |-> scan[i].ent, ts |-> scan[i].ts] :
                                           i \in {j \in 1..Len(scan) :
                                                    scan[j].kind # "checkTasks"}}]>>)
      ELSE LET c  == Head(f.ids)
               ct == [BaseEvent(FreshId(S), "checkTasks", S.op.owners[c], WorldId, S.now)
                        EXCEPT !.task = c, !.by = "cronjob"]
           IN  Replace(Bump(S), <<[Frame("pge", ct) EXCEPT !.ctx = "pge"],
                                  [Frame("t_stamp", ct) EXCEPT !.task = c,
                                                               !.ids = Tail(f.ids)]>>)

(* Database.updateCronjobLastExecuted: the UPDATE changes the row if there
   is one. *)
updateCronjobLastExecuted(S, c) ==
  IF S.dbUp /\ S.cron[c].char # "" THEN [S EXCEPT !.cron[c].last = S.now] ELSE S

(* Line 190, after onCheckTasksEvent returned. *)
tickStamp(S) ==
  LET f == Top(S)
  IN  updateCronjobLastExecuted(
        Replace(S, <<[f EXCEPT !.t = "t_stamped", !.ok = S.dbUp]>>), f.task)

(* updateCronjobLastExecuted answers; a rejection goes to the catch of
   lines 192-208. *)
tickStamped(S) ==
  LET f    == Top(S)
      loop == [f EXCEPT !.t = "t_loop", !.ok = TRUE]
  IN  IF f.ok THEN Replace(S, <<loop>>)
      ELSE onErrorEvent(S, f.ev.ent, WorldId, "medium", <<loop>>)

(* Lines 220-250: the next entity without recent activity gets a
   checkTasks event. *)
tickIdle(S) ==
  LET f == Top(S)
  IN  IF f.ids = <<>> THEN Pop(S)
      ELSE LET x    == Head(f.ids)
               rest == [f EXCEPT !.ids = Tail(f.ids)]
               recent == {a \in f.acts : a.ent = x /\ S.now - a.ts < ActivityWindowMs}
           IN  IF recent # {} THEN Replace(S, <<rest>>)
               ELSE LET ct == [BaseEvent(FreshId(S), "checkTasks", x, WorldId, S.now)
                                 EXCEPT !.by = "idle"]
                    IN  Replace(Bump(S), <<[Frame("pge", ct) EXCEPT !.ctx = "pge"], rest>>)

(* getCronjobsDueForExecution answers; a rejection goes to the catch of
   lines 272-276 and ends the tick. *)
tickGotDue(S) ==
  LET f == Top(S)
  IN  IF ~f.ok THEN [S EXCEPT !.op.st = <<>>]
      ELSE Replace(S, <<[Frame("t_loop", NoEvent) EXCEPT !.ids = S.op.due]>>)

(* getEntitiesByWorld and getRecentEvents answer. *)
tickScanned(S) ==
  LET f == Top(S)
  IN  IF ~f.ok THEN [S EXCEPT !.op.st = <<>>]
      ELSE Replace(S, <<[f EXCEPT !.t = "t_idle"]>>)

(***************************************************************************)
(* Running an operation from the answer of a query to its next query.      *)
(***************************************************************************)
RECURSIVE Settle(_)
Settle(S) ==
  IF S.op.st = <<>> THEN S
  ELSE LET t == Top(S).t
       IN  CASE t = "pge"       -> Settle(processGameEngineEvent(S))
             [] t = "spk"       -> Settle(processSpeakEvent(S))
             [] t = "bc"        -> Settle(Pop(broadcastEvent(S, Top(S).ev)))
             [] t = "ct_add"    -> Settle(checkTasksAdd(S))
             [] t = "cmd_after" -> Settle(commandAfterHandler(S))
             [] t = "cmd_catch" -> Settle(commandCatchMemory(S))
             [] t = "cmd_ret"   -> Settle(commandReturns(S))
             [] t = "t_loop"    -> Settle(tickLoop(S))
             [] t = "t_stamp"   -> Settle(tickStamp(S))
             [] t = "t_idle"    -> Settle(tickIdle(S))
             [] OTHER           -> S

(* The state the step leaves; the snapshot of a finished operation is
   out of scope. *)
Commit(S) ==
  /\ ops' = [ops EXCEPT ![S.o] = IF S.op.st = <<>>
                                 THEN [S.op EXCEPT !.gs = NoGameState]
                                 ELSE S.op]
  /\ memEnt' = S.mem
  /\ recentEvents' = S.recent
  /\ dbEnt' = S.dbEnt
  /\ dbEvents' = S.dbEvents
  /\ dbMem' = S.dbMem
  /\ cron' = S.cron
  /\ clients' = S.clients
  /\ broadcast' = S.bc
  /\ emitted' = S.emitted
  /\ persistFailed' = S.pfail

Waiting(o, t) == ops[o].st # <<>> /\ Head(ops[o].st).t = t

(* Whether the query an operation issues gets through: the database may
   reject up to MaxFaults queries, and the pool rejects every query once
   pool.end() has been called. *)
Answers ==
  IF Closed("persistence") THEN {FALSE}
  ELSE IF faultsLeft > 0 THEN BOOLEAN ELSE {TRUE}

Rejected(S) == S.op.st # <<>> /\ ~Head(S.op.st).ok

(* One step of an operation: S is the state it has reached, suspended at
   its next query or finished. *)
Step(S) ==
  /\ ~Closed("exit")
  /\ S.dbUp \/ Rejected(S) \/ Closed("persistence")
  /\ Commit(S)
  /\ faultsLeft' = IF S.dbUp \/ Closed("persistence") THEN faultsLeft
                   ELSE faultsLeft - 1
  /\ UNCHANGED <<now, closed>>

(* The operation runs `step` and on to its next query. *)
Resume(o, step(_)) ==
  \E up \in Answers : Step(Settle(step(State(o, ops[o], up))))

(***************************************************************************)
(* GameEngine.joinEntity and GameWebSocketServer.handleJoin.               *)
(***************************************************************************)
(* Database.createOrUpdateEntity: the upsert of the row and its items. *)
createOrUpdateEntity(S, e, entity) ==
  IF S.dbUp THEN [S EXCEPT !.dbEnt[e] = entity] ELSE S

(* handleJoin, lines 361-375, after joinEntity returned the entity. *)
joinReturns(S) ==
  [S EXCEPT !.op.st = <<>>, !.op.joined = TRUE, !.op.returned = TRUE,
            !.clients = @ \cup {S.op.ent}]

(* The catch of handleJoin, lines 378-384. *)
joinFails(S) == [S EXCEPT !.op.st = <<>>, !.op.notified = TRUE, !.op.failed = TRUE]

(* joinEntity, lines 807-824. *)
joinEntity(S) ==
  LET e == S.op.ent
  IN  IF S.mem[e].present THEN joinReturns(S)
      ELSE createOrUpdateEntity(
             [S EXCEPT !.mem[e] = NewEntity,
                       !.op.st = <<[Frame("j_created", NoEvent) EXCEPT !.ok = S.dbUp]>>],
             e, NewEntity)

(* joinEntity, lines 826-838: the spawn event and its addEvent. *)
joinCreated(S) ==
  LET f == Top(S)
  IN  IF ~f.ok THEN joinFails(S)
      ELSE LET spawn == [BaseEvent(FreshId(S), "spawn", S.op.ent, WorldId, S.now)
                           EXCEPT !.to = Origin]
           IN  addEventCall(Bump(S), spawn, Frame("j_saved", spawn))

(* addEvent(spawnEvent) after saveEvent. *)
joinSaved(S) ==
  LET f == Top(S)
  IN  IF ~f.ok THEN joinFails(S)
      ELSE joinReturns(Unshift(S, f.ev))

(***************************************************************************)
(* The actions: the requests that start an operation, the answers of the   *)
(* queries, and the environment.                                           *)
(***************************************************************************)
(* handleJoin.  A join of an entity already in the world state returns at
   once; it is not kept as an operation, and another socket joining an
   entity that has one changes nothing. *)
HandleJoin(e) ==
  /\ IF memEnt[e].present THEN e \notin clients ELSE NextOp <= MaxOps
  /\ LET o   == IF memEnt[e].present THEN 1 ELSE NextOp
         op0 == [NoOp EXCEPT !.type = "join", !.ent = e, !.world = WorldId]
     IN  \E up \in Answers :
           LET S == joinEntity(State(o, op0, up))
           IN  Step(IF memEnt[e].present THEN [S EXCEPT !.op = ops[o]] ELSE S)
  /\ UNCHANGED lastFire

JoinCreated(o) ==
  /\ Waiting(o, "j_created")
  /\ Resume(o, joinCreated)
  /\ UNCHANGED lastFire

JoinSaved(o) ==
  /\ Waiting(o, "j_saved")
  /\ Resume(o, joinSaved)
  /\ UNCHANGED lastFire

(* handleCommand, lines 388-423, and processCommand up to the query of
   generateDecision. *)
HandleCommand(e, w) ==
  /\ NextOp <= MaxOps
  /\ e \in clients
  /\ \E up \in Answers :
       LET uc  == BaseEvent(<<NextOp, 1>>, "userCommand", e, w, now)
           op0 == [NoOp EXCEPT !.type = "command", !.ent = e, !.world = w,
                               !.snap = memEnt[e].present, !.gs = getGameState,
                               !.n = 1, !.res = <<uc>>,
                               !.st = <<[Frame("pc_llm", NoEvent) EXCEPT !.ok = up]>>]
       IN  Step(State(NextOp, op0, up))
  /\ UNCHANGED lastFire

(* LLMService.generateDecision returns: null when its query failed or the
   character is not in the snapshot, else whatever the model decided. *)
DecisionReturns(o) ==
  /\ Waiting(o, "pc_llm")
  /\ \E d \in (IF Head(ops[o].st).ok /\ ops[o].snap THEN Decisions ELSE {NoDecision}),
        up \in Answers :
       Step(Settle(decisionReturns(State(o, ops[o], up), d)))
  /\ UNCHANGED lastFire

(* The language model answers a command with a move decision whose target
   is not a position. *)
DecisionReturnsInvalidMove(o) ==
  /\ Waiting(o, "pc_llm")
  /\ Head(ops[o].st).ok /\ ops[o].snap
  /\ \E d \in InvalidMoveDecisions, up \in Answers :
       Step(Settle(decisionReturns(State(o, ops[o], up), d)))
  /\ UNCHANGED lastFire

MoveGotEntity(o) ==
  /\ Waiting(o, "hm_get")
  /\ Resume(o, moveGotEntity)
  /\ UNCHANGED lastFire

MoveUpdated(o) ==
  /\ Waiting(o, "hm_upd")
  /\ Resume(o, moveUpdated)
  /\ UNCHANGED lastFire

SpeakGotSpeaker(o) ==
  /\ Waiting(o, "hs_get")
  /\ Resume(o, speakGotSpeaker)
  /\ UNCHANGED lastFire

SpeakGotWorld(o) ==
  /\ Waiting(o, "hs_all")
  /\ Resume(o, speakGotWorld)
  /\ UNCHANGED lastFire

PickupGotEntity(o) ==
  /\ Waiting(o, "hp_get")
  /\ Resume(o, pickupGotEntity)
  /\ UNCHANGED lastFire

PickupAdded(o) ==
  /\ Waiting(o, "hp_add")
  /\ Resume(o, handlerWrote)
  /\ UNCHANGED lastFire

DropGotEntity(o) ==
  /\ Waiting(o, "hd_get")
  /\ Resume(o, dropGotEntity)
  /\ UNCHANGED lastFire

DropRemoved(o) ==
  /\ Waiting(o, "hd_rm")
  /\ Resume(o, handlerWrote)
  /\ UNCHANGED lastFire

InstructionMemorySaved(o) ==
  /\ Waiting(o, "pc_mem")
  /\ Resume(o, instructionMemorySaved)
  /\ UNCHANGED lastFire

ErrorMemorySaved(o) ==
  /\ Waiting(o, "pc_errmem")
  /\ Resume(o, errorMemorySaved)
  /\ UNCHANGED lastFire

EventSaved(o) ==
  /\ Waiting(o, "sv")
  /\ Resume(o, eventSaved)
  /\ UNCHANGED lastFire

PositionApplied(o) ==
  /\ Waiting(o, "mv_upd")
  /\ Resume(o, positionApplied)
  /\ UNCHANGED lastFire

HeardSaved(o) ==
  /\ Waiting(o, "sv_h")
  /\ Resume(o, heardSaved)
  /\ UNCHANGED lastFire

CheckTasksDecided(o) ==
  /\ Waiting(o, "ct_llm")
  /\ \E d \in (IF Head(ops[o].st).ok THEN CheckDecisions ELSE {NoDecision}),
        up \in Answers :
       Step(Settle(checkTasksDecided(State(o, ops[o], up), d)))
  /\ UNCHANGED lastFire

(* The pickup and drop decisions of a scheduled check, lines 117-132. *)
CheckItemDecisions ==
  {[NoDecision EXCEPT !.kind = "pickup"]}
    \cup {[NoDecision EXCEPT !.kind = "drop", !.item = i] :
            i \in {NoSuchItem} \cup UNION {dbEnt[e].items : e \in EntityIds}}

(* The language model answers a scheduled check with a pickup or a drop
   decision. *)
CheckTasksItemDecided(o) ==
  /\ Waiting(o, "ct_llm")
  /\ Head(ops[o].st).ok
  /\ \E d \in CheckItemDecisions, up \in Answers :
       Step(Settle(checkTasksDecided(State(o, ops[o], up), d)))
  /\ UNCHANGED lastFire

(* The language model answers a scheduled check with a move decision. *)
CheckTasksMoveDecided(o) ==
  /\ Waiting(o, "ct_llm")
  /\ Head(ops[o].st).ok
  /\ \E d \in CheckMoveDecisions, up \in Answers :
       Step(Settle(checkTasksDecided(State(o, ops[o], up), d)))
  /\ UNCHANGED lastFire

CheckTasksMemorySaved(o) ==
  /\ Waiting(o, "ct_mem")
  /\ Resume(o, checkTasksMemorySaved)
  /\ UNCHANGED lastFire

CheckTasksErrorMemorySaved(o) ==
  /\ Waiting(o, "ct_errmem")
  /\ Resume(o, checkTasksErrorMemorySaved)
  /\ UNCHANGED lastFire

CheckTasksSaved(o) ==
  /\ Waiting(o, "sv_ct")
  /\ Resume(o, checkTasksSaved)
  /\ UNCHANGED lastFire

(* The interval timer of startPeriodicTaskChecking fires: a call of
   executeScheduledTasks, whatever the earlier calls are doing. *)
TimerFire ==
  /\ ~Closed("timer")
  /\ NextOp <= MaxOps
  /\ lastFire < now
  /\ lastFire' = now
  /\ \E up \in Answers :
       LET op0 == [NoOp EXCEPT !.type = "tick", !.world = WorldId,
                               !.due = IF up THEN getCronjobsDueForExecution(cron, now)
                                       ELSE <<>>,
                               !.owners = [c \in CronIds |-> cron[c].char],
                               !.fetchedAt = now,
                               !.st = <<[Frame("t_due", NoEvent) EXCEPT !.ok = up]>>]
       IN  Step(State(NextOp, op0, up))

TickGotDue(o) ==
  /\ Waiting(o, "t_due")
  /\ Resume(o, tickGotDue)
  /\ UNCHANGED lastFire

TickStamped(o) ==
  /\ Waiting(o, "t_stamped")
  /\ Resume(o, tickStamped)
  /\ UNCHANGED lastFire

TickScanned(o) ==
  /\ Waiting(o, "t_scan")
  /\ Resume(o, tickScanned)
  /\ UNCHANGED lastFire

AdvanceClock ==
  /\ now < MaxClock * ClockStep
  /\ now' = now + ClockStep
  /\ UNCHANGED <<faultsLeft, lastFire, memEnt, recentEvents, dbEnt, dbEvents,
                 dbMem, cron, clients, broadcast, emitted, persistFailed, ops,
                 closed>>

(* The steps of the event pipeline. *)
Pipeline(o) ==
  \/ MoveGotEntity(o)
  \/ MoveUpdated(o)
  \/ EventSaved(o)
  \/ PositionApplied(o)
  \/ HeardSaved(o)

(* The clients' requests: joins and commands. *)
Next ==
  \/ \E e \in Residents : HandleJoin(e)
  \/ \E e \in EntityIds, w \in Worlds : HandleCommand(e, w)
  \/ \E o \in OpIds :
       \/ JoinCreated(o)
       \/ JoinSaved(o)
       \/ DecisionReturns(o)
       \/ SpeakGotSpeaker(o)
       \/ SpeakGotWorld(o)
       \/ PickupGotEntity(o)
       \/ PickupAdded(o)
       \/ DropGotEntity(o)
       \/ DropRemoved(o)
       \/ InstructionMemorySaved(o)
       \/ ErrorMemorySaved(o)
       \/ Pipeline(o)

(* The scheduler: the timer's firings over a populated world. *)
NextScheduler ==
  \/ TimerFire
  \/ AdvanceClock
  \/ \E o \in OpIds :
       \/ CheckTasksDecided(o)
       \/ CheckTasksMemorySaved(o)
       \/ CheckTasksSaved(o)
       \/ TickGotDue(o)
       \/ TickStamped(o)
       \/ TickScanned(o)
       \/ EventSaved(o)
       \/ HeardSaved(o)

Spec == Init /\ [][Next]_vars

SpecScheduler == InitScheduler /\ [][NextScheduler]_vars

(* Commands and one scheduler tick together, at the time the interval
   timer first fires: the world of an earlier run, a's client joined, and
   a has an active scheduled task that is due. *)
InitCascade ==
  /\ \E p \in Positions : Populated(p)
  /\ cron = [c \in CronIds |-> [char |-> "a", interval |-> 30, last |-> 0, active |-> TRUE]]
  /\ faultsLeft = MaxFaults
  /\ now = ClockStep
  /\ lastFire = 0
  /\ memEnt = dbEnt
  /\ recentEvents = getRecentEvents(dbEvents, LoadLimit)
  /\ dbMem = {}
  /\ clients = {"a"}
  /\ broadcast = {}
  /\ emitted = {}
  /\ persistFailed = {}
  /\ ops = [o \in OpIds |-> NoOp]
  /\ closed = <<>>

OpStep(o) ==
  \/ DecisionReturns(o)
  \/ SpeakGotSpeaker(o)
  \/ SpeakGotWorld(o)
  \/ PickupGotEntity(o)
  \/ PickupAdded(o)
  \/ DropGotEntity(o)
  \/ DropRemoved(o)
  \/ InstructionMemorySaved(o)
  \/ ErrorMemorySaved(o)
  \/ Pipeline(o)
  \/ CheckTasksDecided(o)
  \/ CheckTasksMemorySaved(o)
  \/ CheckTasksErrorMemorySaved(o)
  \/ CheckTasksSaved(o)
  \/ TickGotDue(o)
  \/ TickStamped(o)
  \/ TickScanned(o)

NextCascade ==
  \/ \E e \in EntityIds : HandleCommand(e, WorldId)
  \/ TimerFire
  \/ \E o \in OpIds : OpStep(o)

SpecCascade == InitCascade /\ [][NextCascade]_vars

(* Commands during an outage of the database: the world of an earlier run,
   a's client joined, and the database rejects one query more than in the
   other specifications. *)
InitOutage ==
  /\ \E p \in Positions : Populated(p)
  /\ cron = [c \in CronIds |-> NoCronjob]
  /\ faultsLeft = MaxFaults + 1
  /\ now = 0
  /\ lastFire = 0
  /\ memEnt = dbEnt
  /\ recentEvents = getRecentEvents(dbEvents, LoadLimit)
  /\ dbMem = {}
  /\ clients = {"a"}
  /\ broadcast = {}
  /\ emitted = {}
  /\ persistFailed = {}
  /\ ops = [o \in OpIds |-> NoOp]
  /\ closed = <<>>

NextOutage ==
  \/ \E e \in EntityIds : HandleCommand(e, WorldId)
  \/ \E o \in OpIds :
       \/ DecisionReturns(o)
       \/ SpeakGotSpeaker(o)
       \/ SpeakGotWorld(o)
       \/ PickupGotEntity(o)
       \/ PickupAdded(o)
       \/ DropGotEntity(o)
       \/ DropRemoved(o)
       \/ InstructionMemorySaved(o)
       \/ ErrorMemorySaved(o)
       \/ Pipeline(o)

SpecOutage == InitOutage /\ [][NextOutage]_vars

(***************************************************************************)
(* A busy world: the server has run for one timer interval, in which b     *)
(* perhaps acted once and a produced a burst of events after that.  The    *)
(* timer fires for the first time; no cronjob exists, no client is         *)
(* connected, the database answers every query.                            *)
(***************************************************************************)
BurstSizes == {0, ScanLimit - 1, ScanLimit}

(* b's one event of this interval, at 1 ms. *)
ActivityOfB ==
  [BaseEvent(<<0, 4>>, "speak", "b", WorldId, 1) EXCEPT !.vol = 1]

(* n events of a, one a millisecond, after b's. *)
Burst(n) ==
  {[BaseEvent(<<0, 4 + i>>, "speak", "a", WorldId, 1 + i) EXCEPT !.vol = 1] : i \in 1..n}

InitIdle ==
  /\ \E p \in Positions, acted \in BOOLEAN, n \in BurstSizes :
       /\ dbEnt = [e \in EntityIds |->
                     IF e \in Residents
                     THEN [NewEntity EXCEPT !.pos = IF e = "b" THEN p ELSE Origin]
                     ELSE NoEntity]
       /\ dbEvents = PastEvents(p) \cup (IF acted THEN {ActivityOfB} ELSE {})
                                   \cup Burst(n)
  /\ cron = [c \in CronIds |-> NoCronjob]
  /\ faultsLeft = 0
  /\ now = ClockStep
  /\ lastFire = 0
  /\ memEnt = dbEnt
  /\ recentEvents = getRecentEvents(dbEvents, RecentCap)
  /\ dbMem = {}
  /\ clients = {}
  /\ broadcast = {}
  /\ emitted = {}
  /\ persistFailed = {}
  /\ ops = [o \in OpIds |-> NoOp]
  /\ closed = <<>>

NextIdle ==
  \/ TimerFire
  \/ \E o \in OpIds :
       \/ TickGotDue(o)
       \/ TickScanned(o)
       \/ CheckTasksDecided(o)
       \/ CheckTasksMoveDecided(o)
       \/ CheckTasksMemorySaved(o)
       \/ CheckTasksSaved(o)
       \/ Pipeline(o)

SpecIdle == InitIdle /\ [][NextIdle]_vars

(***************************************************************************)
(* Shutdown: the SIGINT handler of index.ts while the scheduler runs.      *)
(***************************************************************************)
ShutdownOrder == <<"transport", "timer", "persistence">>

(* Lines 43-46: wsServer.close(), gameEngine.shutdown(), which clears the
   interval timer, and the call of database.close(), in one run of the
   handler: shutdown() resolves at once. *)
Sigint ==
  /\ closed = <<>>
  /\ closed' = ShutdownOrder
  /\ UNCHANGED <<now, faultsLeft, lastFire, memEnt, recentEvents, dbEnt, dbEvents,
                 dbMem, cron, clients, broadcast, emitted, persistFailed, ops>>

(* The waits that are no query of the pool: the language model. *)
OracleWaits == {"pc_llm", "ct_llm"}

QueryInFlight(o) ==
  /\ ops[o].st # <<>>
  /\ Head(ops[o].st).ok
  /\ Head(ops[o].st).t \notin OracleWaits

(* Lines 46-47: pool.end() resolves when the queries in flight have been
   answered, then process.exit(0). *)
Exit ==
  /\ Closed("persistence")
  /\ ~Closed("exit")
  /\ \A o \in OpIds : ~QueryInFlight(o)
  /\ closed' = Append(closed, "exit")
  /\ UNCHANGED <<now, faultsLeft, lastFire, memEnt, recentEvents, dbEnt, dbEvents,
                 dbMem, cron, clients, broadcast, emitted, persistFailed, ops>>

InitShutdown ==
  /\ \E p \in Positions : Populated(p)
  /\ cron = [c \in CronIds |-> [char |-> "a", interval |-> 30, last |-> 0, active |-> TRUE]]
  /\ faultsLeft = 0
  /\ now = ClockStep
  /\ lastFire = 0
  /\ memEnt = dbEnt
  /\ recentEvents = getRecentEvents(dbEvents, LoadLimit)
  /\ dbMem = {}
  /\ clients = {"a"}
  /\ broadcast = {}
  /\ emitted = {}
  /\ persistFailed = {}
  /\ ops = [o \in OpIds |-> NoOp]
  /\ closed = <<>>

NextShutdown ==
  \/ TimerFire
  \/ Sigint
  \/ Exit
  \/ \E o \in OpIds :
       \/ TickGotDue(o)
       \/ TickStamped(o)
       \/ TickScanned(o)
       \/ CheckTasksDecided(o)
       \/ CheckTasksMemorySaved(o)
       \/ CheckTasksErrorMemorySaved(o)
       \/ CheckTasksSaved(o)
       \/ EventSaved(o)
       \/ HeardSaved(o)

SpecShutdown == InitShutdown /\ [][NextShutdown]_vars

(***************************************************************************)
(* Commands of the connected client and the scheduler's first tick, with   *)
(* every kind of decision, while the database answers every query.         *)
(***************************************************************************)
InitAutonomy ==
  /\ \E p \in Positions : Populated(p)
  /\ cron = [c \in CronIds |-> [char |-> "a", interval |-> 30, last |-> 0, active |-> TRUE]]
  /\ faultsLeft = 0
  /\ now = ClockStep
  /\ lastFire = 0
  /\ memEnt = dbEnt
  /\ recentEvents = getRecentEvents(dbEvents, LoadLimit)
  /\ dbMem = {}
  /\ clients = {"a"}
  /\ broadcast = {}
  /\ emitted = {}
  /\ persistFailed = {}
  /\ ops = [o \in OpIds |-> NoOp]
  /\ closed = <<>>

NextAutonomy ==
  \/ \E e \in EntityIds : HandleCommand(e, WorldId)
  \/ TimerFire
  \/ \E o \in OpIds :
       \/ DecisionReturns(o)
       \/ SpeakGotSpeaker(o)
       \/ SpeakGotWorld(o)
       \/ PickupGotEntity(o)
       \/ PickupAdded(o)
       \/ DropGotEntity(o)
       \/ DropRemoved(o)
       \/ InstructionMemorySaved(o)
       \/ Pipeline(o)
       \/ CheckTasksDecided(o)
       \/ CheckTasksMoveDecided(o)
       \/ CheckTasksMemorySaved(o)
       \/ CheckTasksSaved(o)
       \/ TickGotDue(o)
       \/ TickStamped(o)
       \/ TickScanned(o)

SpecAutonomy == InitAutonomy /\ [][NextAutonomy]_vars

(***************************************************************************)
(* Commands of the connected client, the language model also deciding      *)
(* moves to targets that are no positions; the database answers every      *)
(* query.                                                                  *)
(***************************************************************************)
InitInput ==
  /\ \E p \in Positions : Populated(p)
  /\ cron = [c \in CronIds |-> NoCronjob]
  /\ faultsLeft = 0
  /\ now = 0
  /\ lastFire = 0
  /\ memEnt = dbEnt
  /\ recentEvents = getRecentEvents(dbEvents, LoadLimit)
  /\ dbMem = {}
  /\ clients = {"a"}
  /\ broadcast = {}
  /\ emitted = {}
  /\ persistFailed = {}
  /\ ops = [o \in OpIds |-> NoOp]
  /\ closed = <<>>

NextInput ==
  \/ \E e \in EntityIds : HandleCommand(e, WorldId)
  \/ \E o \in OpIds :
       \/ DecisionReturns(o)
       \/ DecisionReturnsInvalidMove(o)
       \/ SpeakGotSpeaker(o)
       \/ SpeakGotWorld(o)
       \/ PickupGotEntity(o)
       \/ PickupAdded(o)
       \/ DropGotEntity(o)
       \/ DropRemoved(o)
       \/ InstructionMemorySaved(o)
       \/ ErrorMemorySaved(o)
       \/ Pipeline(o)

SpecInput == InitInput /\ [][NextInput]_vars

(***************************************************************************)
(* The development command deleteCharacter, with a command of the          *)
(* character or a scheduler tick in flight.                                *)
(***************************************************************************)
(* Database.deleteCharacter: one transaction deleting the memories, the
   scheduled tasks, the item instances and the row of the character; a
   rejected statement rolls everything back. *)
deleteCharacter(S, e) ==
  IF S.dbUp
  THEN [S EXCEPT !.dbMem = {m \in @ : m.char # e},
                 !.cron = [c \in CronIds |-> IF @[c].char = e THEN NoCronjob ELSE @[c]],
                 !.dbEnt[e] = NoEntity]
  ELSE S

(* GameEngine.removeEntityFromState: the key leaves the map; a loop that
   started before still holds the entity object with its position. *)
removeEntityFromState(S, e) == [S EXCEPT !.mem[e].present = FALSE]

(* handleDevCommand after deleteCharacter answered: the entity leaves the
   world state, or the catch reports the failure to the client. *)
deleteDone(S) ==
  IF Top(S).ok
  THEN [removeEntityFromState(S, S.op.ent) EXCEPT !.op.st = <<>>, !.op.returned = TRUE]
  ELSE [S EXCEPT !.op.st = <<>>, !.op.notified = TRUE, !.op.failed = TRUE]

(* handleDevCommand, command deleteCharacter, from any socket and for any
   character id. *)
HandleDeleteCharacter(e) ==
  /\ NextOp <= MaxOps
  /\ \E up \in Answers :
       LET op0 == [NoOp EXCEPT !.type = "delete", !.ent = e, !.world = WorldId,
                               !.st = <<[Frame("dv_del", NoEvent) EXCEPT !.ok = up]>>]
       IN  Step(deleteCharacter(State(NextOp, op0, up), e))
  /\ UNCHANGED lastFire

DeleteDone(o) ==
  /\ Waiting(o, "dv_del")
  /\ Resume(o, deleteDone)
  /\ UNCHANGED lastFire

HeldItem == <<0, 7>>

(* A populated world whose character a holds an item, has a memory and a
   due scheduled task; the database may reject one query. *)
InitDeletion ==
  /\ dbEnt = [e \in EntityIds |->
                IF e \in Residents
                THEN [NewEntity EXCEPT !.items = IF e = "a" THEN {HeldItem} ELSE {}]
                ELSE NoEntity]
  /\ dbEvents = PastEvents(Origin)
  /\ cron = [c \in CronIds |-> [char |-> "a", interval |-> 30, last |-> 0, active |-> TRUE]]
  /\ faultsLeft = MaxFaults
  /\ now = ClockStep
  /\ lastFire = 0
  /\ memEnt = dbEnt
  /\ recentEvents = getRecentEvents(dbEvents, LoadLimit)
  /\ dbMem = {[char |-> "a", world |-> WorldId, text |-> "observe", op |-> 0, rel |-> NoId]}
  /\ clients = {"a"}
  /\ broadcast = {}
  /\ emitted = {}
  /\ persistFailed = {}
  /\ ops = [o \in OpIds |-> NoOp]
  /\ closed = <<>>

NextDeletion ==
  \/ \E e \in EntityIds : HandleCommand(e, WorldId)
  \/ \E e \in Residents : HandleDeleteCharacter(e)
  \/ TimerFire
  \/ \E o \in OpIds :
       \/ DeleteDone(o)
       \/ DecisionReturns(o)
       \/ SpeakGotSpeaker(o)
       \/ SpeakGotWorld(o)
       \/ PickupGotEntity(o)
       \/ PickupAdded(o)
       \/ DropGotEntity(o)
       \/ DropRemoved(o)
       \/ InstructionMemorySaved(o)
       \/ ErrorMemorySaved(o)
       \/ Pipeline(o)
       \/ CheckTasksDecided(o)
       \/ CheckTasksMemorySaved(o)
       \/ CheckTasksErrorMemorySaved(o)
       \/ CheckTasksSaved(o)
       \/ TickGotDue(o)
       \/ TickStamped(o)
       \/ TickScanned(o)

SpecDeletion == InitDeletion /\ [][NextDeletion]_vars

(***************************************************************************)
(* Three entities in the world, two of them connected: one speaks while    *)
(* the other moves.                                                        *)
(***************************************************************************)
InitHearing ==
  /\ \E p \in Positions :
       dbEnt = [e \in EntityIds |-> [NewEntity EXCEPT !.pos = IF e = "c" THEN p ELSE Origin]]
  /\ dbEvents = {}
  /\ cron = [c \in CronIds |-> NoCronjob]
  /\ faultsLeft = 0
  /\ now = 0
  /\ lastFire = 0
  /\ memEnt = dbEnt
  /\ recentEvents = <<>>
  /\ dbMem = {}
  /\ clients = {"a", "c"}
  /\ broadcast = {}
  /\ emitted = {}
  /\ persistFailed = {}
  /\ ops = [o \in OpIds |-> NoOp]
  /\ closed = <<>>

NextHearing ==
  \/ \E e \in EntityIds : HandleCommand(e, WorldId)
  \/ \E o \in OpIds :
       \/ DecisionReturns(o)
       \/ SpeakGotSpeaker(o)
       \/ SpeakGotWorld(o)
       \/ PickupGotEntity(o)
       \/ PickupAdded(o)
       \/ DropGotEntity(o)
       \/ DropRemoved(o)
       \/ InstructionMemorySaved(o)
       \/ Pipeline(o)

SpecHearing == InitHearing /\ [][NextHearing]_vars

(***************************************************************************)
(* Pickups and drops decided for a command and at a scheduled check, for   *)
(* a character that holds an item.                                         *)
(***************************************************************************)
InitInventory ==
  /\ dbEnt = [e \in EntityIds |->
                IF e \in Residents
                THEN [NewEntity EXCEPT !.items = IF e = "a" THEN {HeldItem} ELSE {}]
                ELSE NoEntity]
  /\ dbEvents = PastEvents(Origin)
  /\ cron = [c \in CronIds |-> [char |-> "a", interval |-> 30, last |-> 0, active |-> TRUE]]
  /\ faultsLeft = 0
  /\ now = ClockStep
  /\ lastFire = 0
  /\ memEnt = dbEnt
  /\ recentEvents = getRecentEvents(dbEvents, LoadLimit)
  /\ dbMem = {}
  /\ clients = {"a"}
  /\ broadcast = {}
  /\ emitted = {}
  /\ persistFailed = {}
  /\ ops = [o \in OpIds |-> NoOp]
  /\ closed = <<>>

NextInventory ==
  \/ \E e \in EntityIds : HandleCommand(e, WorldId)
  \/ TimerFire
  \/ \E o \in OpIds :
       \/ DecisionReturns(o)
       \/ SpeakGotSpeaker(o)
       \/ SpeakGotWorld(o)
       \/ PickupGotEntity(o)
       \/ PickupAdded(o)
       \/ DropGotEntity(o)
       \/ DropRemoved(o)
       \/ InstructionMemorySaved(o)
       \/ Pipeline(o)
       \/ CheckTasksDecided(o)
       \/ CheckTasksItemDecided(o)
       \/ CheckTasksMemorySaved(o)
       \/ CheckTasksSaved(o)
       \/ TickGotDue(o)
       \/ TickStamped(o)
       \/ TickScanned(o)

SpecInventory == InitInventory /\ [][NextInventory]_vars

(***************************************************************************)
(* The properties.                                                         *)
(***************************************************************************)
Range(seq) == {seq[i] : i \in 1..Len(seq)}

Recorded == dbEvents \cup broadcast \cup Range(recentEvents) \cup persistFailed

EventsOf(o) == {e \in Recorded \cup emitted \cup Range(ops[o].res) : e.id[1] = o}

Finished(o) == ops[o].type # "none" /\ ops[o].st = <<>>

(* C1: an event of another world leaves no trace: it is neither in the
   recent buffer, nor persisted, nor broadcast to the viewers. *)
C1_WorldIsolation ==
  \A e \in dbEvents \cup Range(recentEvents) \cup broadcast : e.world = WorldId

(* C2: once a join of an entity has returned it and no join of it is in
   flight, there is exactly one persisted entity and one spawn event. *)
C2_JoinIdempotent ==
  \A e \in clients :
    (\A o \in OpIds : ~(ops[o].type = "join" /\ ops[o].ent = e /\ ops[o].st # <<>>))
      => /\ dbEnt[e].present
         /\ Cardinality({s \in dbEvents : s.kind = "spawn" /\ s.ent = e}) = 1

(* C3: an utterance at volume v gives a listener at most one heard event,
   and only a listener at distance <= v gets one. *)
C3_HeardWithinVolume ==
  \A h \in dbEvents :
    h.kind = "heard" =>
      /\ h.d2 <= Sq(h.vol)
      /\ \A g \in dbEvents :
           (g.kind = "heard" /\ g.cause = h.cause /\ g.ent = h.ent) => g = h

(* A drop of an item the actor does not hold fails with a high-severity
   error and no drop event of the command is returned, persisted, buffered
   or broadcast. *)
C4_NoDropEvent ==
  \A o \in OpIds :
    ops[o].dropMiss =>
      /\ \A e \in EventsOf(o) : e.kind # "drop"
      /\ \E e \in emitted : e.id[1] = o /\ e.sev = "high"

(* The step that finds the item missing leaves every inventory, persisted
   and in memory, as it was. *)
C4_InventoryKept ==
  \A o \in OpIds :
    (~ops[o].dropMiss /\ ops'[o].dropMiss) => UNCHANGED <<dbEnt, memEnt>>

(* C4: dropping an item instance that is not in the actor's inventory
   fails with an error, produces no drop event (returned, persisted or
   broadcast) and leaves the inventory unchanged. *)
C4_DropOfMissingItem == []C4_NoDropEvent /\ [][C4_InventoryKept]_vars

C4_Witness ==
  \E o \in OpIds : ops[o].dropMiss /\ ops[o].returned /\ Finished(o)

(* C5: the recent buffer holds at most 50 events, newest first by the
   time of their creation. *)
C5_RecentNewestFirst ==
  /\ Len(recentEvents) <= RecentCap
  /\ \A i, j \in 1..Len(recentEvents) :
       i < j => recentEvents[i].ts >= recentEvents[j].ts

(* C6: when the oracle gives no decision, processCommand returns exactly
   the userCommand event, one low-severity error is emitted and the
   command produces no domain event. *)
C6_NoDecision ==
  \A o \in OpIds :
    (ops[o].type = "command" /\ ops[o].returned /\ ops[o].dec.kind = "none") =>
      /\ Len(ops[o].res) = 1
      /\ ops[o].res[1].kind = "userCommand"
      /\ ops[o].res[1].ent = ops[o].ent
      /\ Cardinality({e \in emitted : e.id[1] = o}) = 1
      /\ \A e \in emitted : e.id[1] = o => e.sev = "low" /\ e.ent = ops[o].ent
      /\ \A e \in EventsOf(o) : e.kind \in {"userCommand", "characterError"}

C6_Witness ==
  \E o \in OpIds :
    /\ ops[o].type = "command" /\ ops[o].returned /\ ops[o].dec.kind = "none"
    /\ Finished(o)
    /\ \E e \in dbEvents : e.id[1] = o /\ e.kind = "characterError"

(* C7: at most one scheduler tick is in flight at any time. *)
C7_OneTickInFlight ==
  Cardinality({o \in OpIds : ops[o].type = "tick" /\ ops[o].st # <<>>}) <= 1

(* The checkTasks event that operation o is running on account of a
   scheduled task, if any. *)
TaskCheck(o) ==
  IF ops[o].st # <<>> /\ Head(ops[o].st).t = "ct_llm" /\ Head(ops[o].st).ev.by = "cronjob"
  THEN Head(ops[o].st).ev
  ELSE NoEvent

(* C8: a checkTasks event on account of a scheduled task is created only
   while the task is active and due: a task that is inactive or not due
   causes none, and after the stamp of lastExecuted the task causes none
   until its interval has elapsed. *)
C8_TaskRunsOnlyWhenDue ==
  [][\A o \in OpIds :
       (TaskCheck(o)' # NoEvent /\ TaskCheck(o)' # TaskCheck(o))
         => IsDue(cron[TaskCheck(o)'.task], now)]_vars

(* C9: persist, then apply: an event whose persistence failed is not in
   the recent buffer, its spawn is not applied, it is not broadcast; and
   no event of the world is broadcast without having been persisted. *)
C9_PersistThenApply ==
  /\ \A e \in persistFailed :
       /\ e \notin Range(recentEvents)
       /\ e \notin broadcast
       /\ e.kind = "spawn" => ~memEnt[e.ent].present /\ ~dbEnt[e.ent].present
  /\ \A e \in broadcast : e.world = WorldId => e \in dbEvents

(* C10: a persistence failure while an operation's events are ingested is
   reported to the caller of the operation. *)
C10_FailureReported ==
  \A o \in OpIds : (Finished(o) /\ ops[o].failed) => ops[o].notified

(* Every event there is: recorded, emitted, or in the result of a command. *)
AllEvents ==
  Recorded \cup emitted \cup UNION {Range(ops[o].res) : o \in OpIds}

(* No event was caused by a heard event. *)
C11_HeardIsLeaf ==
  \A h \in AllEvents : h.kind = "heard" => \A e \in AllEvents : e.cause # h.id

(* What one checkTasks event can produce: itself, one action event, and a
   heard event per other entity; and the answers it waits for: the
   language model, the memory, its own save, the save of the action event
   and of each heard event. *)
PerCheckEvents == 2 + (Cardinality(Residents) - 1)

PerCheckSteps == 4 + (Cardinality(Residents) - 1)

(* The most events an operation produces and the most answers it waits
   for: those of a tick that checks every task and every entity, with an
   error event and an error memory for each rejected query. *)
DerivedLimit == (MaxCrons + Cardinality(Residents)) * PerCheckEvents + MaxFaults

StepLimit ==
  3 + MaxCrons * (PerCheckSteps + 1) + Cardinality(Residents) * PerCheckSteps
    + 2 * MaxFaults

(* C11: a heard event never gives rise to another event, and a command or
   a scheduler tick produces finitely many events (at most DerivedLimit)
   and is finished after finitely many answers of its queries (at most
   StepLimit). *)
C11_CascadeTerminates ==
  /\ C11_HeardIsLeaf
  /\ \A o \in OpIds : ops[o].n <= DerivedLimit /\ ops[o].steps <= StepLimit

C11_Witness ==
  \E o \in OpIds :
    /\ Finished(o)
    /\ \E h \in dbEvents : h.kind = "heard" /\ h.id[1] = o /\ h.by = "handler"
    /\ \E h \in dbEvents : h.kind = "heard" /\ h.id[1] = o /\ h.by = "engine"


(* What the holder of the snapshot of operation o reads for entity e: the
   engine's entity object. *)
SnapshotEntity(o, e) == memEnt[e]

(* C12: a snapshot returned by getGameState shares nothing mutable with the
   engine: while its holder runs, every entity in it reads as it did when
   the snapshot was returned. *)
C12_SnapshotDecoupled ==
  \A o \in OpIds :
    \A e \in ops[o].gs.keys : SnapshotEntity(o, e) = ops[o].gs.entities[e]


(* C13: in every outcome of processCommand the result begins with the one
   userCommand event of the actor, the first event the command created,
   there from before the language model is asked. *)
C13_AuditEventFirst ==
  \A o \in OpIds :
    ops[o].type = "command" =>
      /\ Len(ops[o].res) >= 1
      /\ ops[o].res[1].kind = "userCommand"
      /\ ops[o].res[1].ent = ops[o].ent
      /\ ops[o].res[1].id = <<o, 1>>
      /\ Cardinality({i \in 1..Len(ops[o].res) : ops[o].res[i].kind = "userCommand"}) = 1

C13_Witness ==
  \E o \in OpIds :
    /\ ops[o].type = "command" /\ ops[o].returned
    /\ \E e \in emitted : e.id[1] = o /\ e.sev = "high"
    /\ \E p \in OpIds :
         ops[p].type = "command" /\ ops[p].returned /\ Len(ops[p].res) > 1


(* C14: processCommand never fails towards its caller: a command that is
   finished has returned its events to handleCommand. *)
C14_NeverFailsTowardsCaller ==
  \A o \in OpIds : (ops[o].type = "command" /\ Finished(o)) => ops[o].returned

(* The frames at which an action handler called by handleEvent waits for
   the answer of a query. *)
HandlerQueries == {"hs_get", "hs_all", "hp_get", "hp_add", "hd_get", "hd_rm"}

ErrorsOf(o, severity) == {e \in emitted : e.id[1] = o /\ e.sev = severity}

UnknownKindReported ==
  \A o \in OpIds :
    (ops[o].type = "command" /\ ops[o].dec.kind = "unknown") =>
      /\ Cardinality(ErrorsOf(o, "medium")) = 1
      /\ \A e \in ErrorsOf(o, "medium") : e.ent = ops[o].ent
      /\ Len(ops[o].res) = 1

HandlerExceptionCaught ==
  \A o \in OpIds :
    (/\ ops[o].st # <<>>
     /\ Head(ops[o].st).t \in HandlerQueries
     /\ ~Head(ops[o].st).ok
     /\ ops'[o] # ops[o]) =>
      /\ Len(ops'[o].st) = Len(ops[o].st) + 1
      /\ ops'[o].st[1].ev.kind = "characterError"
      /\ ops'[o].st[1].ev.sev = "high"
      /\ ops'[o].st[1].ev \in emitted' \ emitted
      /\ ops'[o].st[2].t = "cmd_after"
      /\ ops'[o].st[2].evs = <<>>
      /\ ops'[o].res = ops[o].res
      /\ ~ops'[o].notified

(* C15: a decision of unknown kind makes handleEvent emit one
   medium-severity CharacterError and return no events; a handler whose
   query is rejected has its exception caught inside handleEvent, which
   emits one high-severity error and returns an empty list to
   processCommand, which goes on. *)
C15_HandleEventContains ==
  []UnknownKindReported /\ [][HandlerExceptionCaught]_vars

C15_Witness ==
  /\ \E o \in OpIds :
       /\ ops[o].type = "command" /\ ops[o].returned /\ ops[o].dec.kind = "unknown"
       /\ \E m \in dbMem : m.op = o /\ m.text = "instruction"
  /\ \E o \in OpIds :
       /\ ops[o].type = "command" /\ ops[o].returned
       /\ ops[o].dec.kind \in {"speak", "pickup"}
       /\ ErrorsOf(o, "high") # {}
       /\ \E m \in dbMem : m.op = o /\ m.text = "instruction"

(* The frame of executeScheduledTasks itself, below the frames of the
   event it is processing. *)
TickFrame(o) == ops[o].st[Len(ops[o].st)]

(* C16: within one tick a failure does not end the tick early: a tick
   ends only from its idle-entity phase, with no entity left to look at,
   so a failure in the due-task phase does not prevent the idle-entity
   phase from running. *)
C16_TickFaultIsolation ==
  [][\A o \in OpIds :
       (ops[o].type = "tick" /\ ops[o].st # <<>> /\ ops'[o].st = <<>>) =>
         \/ TickFrame(o).t = "t_scan"
         \/ TickFrame(o).t = "t_idle" /\ TickFrame(o).ids = <<>>]_vars

(* Whether entity x has an event other than checkTasks, written before the
   tick, within the activity window that ends at time t. *)
ActiveWithin(x, t) ==
  \E e \in dbEvents :
    /\ e.id[1] = 0 /\ e.world = WorldId /\ e.ent = x
    /\ e.kind # "checkTasks"
    /\ t - e.ts < ActivityWindowMs

IdleChecks == {e \in dbEvents : e.kind = "checkTasks" /\ e.by = "idle"}

(* C17: in the idle phase, exactly the entities without an event other
   than checkTasks inside the activity window get a synthesized checkTasks
   event; an entity with such an event gets none, however many other
   events the world has produced since. *)
C17_IdleExactly ==
  /\ \A ct \in IdleChecks : ~ActiveWithin(ct.ent, ct.ts)
  /\ \A o \in OpIds :
       (ops[o].type = "tick" /\ Finished(o)) =>
         \A x \in EntityIds :
           (dbEnt[x].present /\ ~ActiveWithin(x, now)) =>
             \E ct \in IdleChecks : ct.ent = x /\ ct.id[1] = o

TickInFlight == \E o \in OpIds : ops[o].type = "tick" /\ ops[o].st # <<>>

(* A step of a tick that broadcasts after the transport was closed, or
   issues a query after the persistence backend was closed. *)
TickUsesClosed ==
  \E o \in OpIds :
    /\ ops[o].type = "tick"
    /\ ops'[o] # ops[o]
    /\ \/ Closed("transport") /\ broadcast' # broadcast
       \/ Closed("persistence") /\ ops'[o].st # <<>>

(* C18: shutdown stops the scheduler timer first, lets an in-flight tick
   finish, then closes the transport layer, then the persistence backend;
   no tick step uses transport or persistence after it was closed. *)
C18_ShutdownOrder ==
  /\ [](\A i, j \in 1..Len(closed) :
          /\ (closed[i] = "timer" /\ closed[j] = "transport") => i < j
          /\ (closed[i] = "transport" /\ closed[j] = "persistence") => i < j)
  /\ []((Closed("transport") \/ Closed("persistence")) => ~TickInFlight)
  /\ [][~TickUsesClosed]_vars

(* The frames that hold the events handleCheckTasksEvent is about to
   return or has returned. *)
CheckFrames == {"hm_get", "hm_upd", "ct_mem", "ct_errmem", "ct_add", "sv_ct"}

CheckResults(o) ==
  UNION {Range(ops[o].st[i].evs) :
           i \in {j \in 1..Len(ops[o].st) : ops[o].st[j].t \in CheckFrames}}

ActionKinds == {"move", "speak", "pickup", "drop"}

ChecksOf(o) == {e \in Recorded : e.id[1] = o /\ e.kind = "checkTasks"}

ActionsOf(o) == {e \in Recorded : e.id[1] = o /\ e.kind \in ActionKinds}

(* C19: handleCheckTasksEvent returns no checkTasks event; with no
   decision or a checkTasks decision it returns no events and writes the
   observe memory; every checkTasks event is one the scheduler
   synthesized, and a tick has at most one action event per checkTasks
   event. *)
C19_CheckTasksNoLoop ==
  \A o \in OpIds :
    /\ \A e \in CheckResults(o) : e.kind # "checkTasks"
    /\ (Waiting(o, "ct_mem") /\ ops[o].dec.kind \in {"none", "checkTasks"}) =>
         /\ Head(ops[o].st).evs = <<>>
         /\ \E m \in dbMem : m.text = "observe" /\ m.rel = Head(ops[o].st).ev.id
    /\ ops[o].type = "tick" =>
         /\ \A e \in ChecksOf(o) : e.by \in {"cronjob", "idle"}
         /\ Cardinality(ActionsOf(o)) <= Cardinality(ChecksOf(o))

C19_Witness ==
  \E o \in OpIds :
    /\ Waiting(o, "ct_mem")
    /\ ops[o].dec.kind = "checkTasks"
    /\ ActionsOf(o) # {}

(* The events GameEngine.addEvent was called with: those it saved and
   those whose saveEvent was rejected. *)
Added == dbEvents \cup persistFailed

MovesAdded(type) ==
  {e \in Added : e.kind = "move" /\ e.id[1] \in OpIds /\ ops[e.id[1]].type = type}

(* C20: every move event that reaches GameEngine.addEvent carries from,
   to and the duration computed from them, as the Move handler builds it,
   whether it comes from a user command or from a checkTasks decision. *)
C20_MovesFromMoveHandler ==
  \A e \in Added :
    e.kind = "move" =>
      /\ e.from \in Positions
      /\ e.to \in Positions
      /\ e.dur = calculateMovementDuration(e.from, e.to)
      /\ e.by # "checkTasks"

C20_Witness ==
  /\ MovesAdded("command") # {}
  /\ MovesAdded("tick") # {}

Idle == \A o \in OpIds : ops[o].st = <<>>

(* Whether the event with this id has been persisted, applied and
   broadcast. *)
Processed(id) ==
  \E s \in dbEvents : s.id = id /\ s \in Range(recentEvents) /\ s \in broadcast

(* C21: an event is persisted, applied and broadcast before any event
   derived from it is persisted, applied or broadcast, and every event an
   operation has applied has been broadcast once no operation is in
   flight. *)
C21_DerivedAfterSource ==
  /\ \A h \in Recorded : h.cause # NoId => Processed(h.cause)
  /\ Idle => \A e \in Range(recentEvents) : e.id[1] \in OpIds => e \in broadcast

(* The targets of the move queries in flight, the move events and the
   positions of the entities. *)
MoveQueries ==
  {Head(ops[o].st).pos : o \in {x \in OpIds : Waiting(x, "hm_get") \/ Waiting(x, "hm_upd")}}

(* C22: a move decision whose target has a missing, non-numeric or
   non-finite coordinate is rejected before any query: no getEntity or
   updateEntityPosition is issued for it, no move event carries it, no
   stored or in-memory position becomes it, and the actor gets an error. *)
C22_InvalidTargetRejected ==
  /\ \A t \in MoveQueries : validTarget(t) /\ IsFinite(t)
  /\ \A e \in AllEvents : e.kind = "move" => IsFinite(e.to)
  /\ \A x \in EntityIds : IsFinite(dbEnt[x].pos) /\ IsFinite(memEnt[x].pos)
  /\ \A o \in OpIds :
       (ops[o].type = "command" /\ ops[o].returned /\ ops[o].dec \in InvalidMoveDecisions)
         => ErrorsOf(o, "high") # {}

(* C23: processing one move decision end to end writes the actor's
   position to the persistence backend exactly once, with the target. *)
C23_PositionWrittenOnce ==
  \A o \in OpIds :
    (ops[o].type = "command" /\ ops[o].dec.kind = "move") =>
      /\ Len(ops[o].writes) <= 1
      /\ Finished(o) /\ ErrorsOf(o, "high") = {} => ops[o].writes = <<ops[o].dec.pos>>

(* The language model fails while operation o waits for the decision of
   a checkTasks event whose reads succeeded: getDecision returns null. *)
OracleFailsAtCheck(o) ==
  /\ Waiting(o, "ct_llm") /\ Head(ops[o].st).ok
  /\ ops'[o].st # <<>> /\ Head(ops'[o].st).t = "ct_mem"
  /\ ops'[o].dec.kind = "none"

SilentObserve(o) ==
  /\ emitted' = emitted
  /\ dbEvents' = dbEvents
  /\ Head(ops'[o].st).evs = <<>>
  /\ \E m \in dbMem' \ dbMem :
       m.text = "observe" /\ m.char = Head(ops[o].st).ev.ent

OracleFailureSurfaced ==
  \A o \in OpIds :
    (ops[o].type = "command" /\ ops[o].returned /\ ops[o].dec.kind = "none") =>
      \E e \in emitted :
        e.id[1] = o /\ e.kind = "characterError" /\ e.ent = ops[o].ent

(* C24: a failure of the oracle during a checkTasks produces no
   CharacterError and no event, only the observe memory; during a user
   command it produces a CharacterError for the actor. *)
C24_OracleFailure ==
  /\ [][\A o \in OpIds : OracleFailsAtCheck(o) => SilentObserve(o)]_vars
  /\ []OracleFailureSurfaced

C24_Witness ==
  /\ \E o \in OpIds :
       /\ ops[o].type = "tick" /\ Waiting(o, "ct_mem") /\ ops[o].dec.kind = "none"
       /\ Head(ops[o].st).evs = <<>>
  /\ \E o \in OpIds :
       ops[o].type = "command" /\ ops[o].returned /\ ops[o].dec.kind = "none"

(* The character whose deletion has completed, and what the store holds
   of a character. *)
Deleted(e) ==
  \E o \in OpIds : ops[o].type = "delete" /\ ops[o].ent = e /\ ops[o].returned

StoredOf(e) ==
  [row |-> dbEnt[e].present, items |-> dbEnt[e].items,
   memories |-> {m \in dbMem : m.char = e},
   tasks |-> {c \in CronIds : cron[c].char = e}]

NothingStored == [row |-> FALSE, items |-> {}, memories |-> {}, tasks |-> {}]

(* The deletion's transaction removes everything of the character or,
   rejected, nothing. *)
DeletionAllOrNothing ==
  [][\A e \in EntityIds :
       (\E o \in OpIds : ops[o].type = "none" /\ ops'[o].type = "delete" /\ ops'[o].ent = e)
         => LET after == [row |-> dbEnt'[e].present, items |-> dbEnt'[e].items,
                          memories |-> {m \in dbMem' : m.char = e},
                          tasks |-> {c \in CronIds : cron'[c].char = e}]
            IN  after = NothingStored \/ after = StoredOf(e)]_vars

(* C25: once the deletion of an entity has completed, the store holds no
   row, item instance, memory or scheduled task of it and the world state
   does not contain it (no join follows in this specification), also when
   a command of the entity or a tick was in flight during the deletion. *)
C25_DeletedStaysDeleted ==
  \A e \in EntityIds : Deleted(e) => StoredOf(e) = NothingStored /\ ~memEnt[e].present
(* The heard events the engine has derived from the speak event e. *)
HeardOf(e) ==
  {h \in dbEvents \cup persistFailed :
     h.kind = "heard" /\ h.by = "engine" /\ h.cause = e.id}

(* C26: the heard events the engine derives from a speak event are those
   of the entities within hearing when the processing of the speak event
   started, at the distances of that moment, whatever other operations do
   in between. *)
C26_HeardFromOneMoment ==
  \A o \in OpIds :
    (ops[o].st # <<>> /\ Head(ops[o].st).t \in {"spk", "sv_h"}) =>
      \A h \in HeardOf(Head(ops[o].st).ev) :
        [ent |-> h.ent, d2 |-> h.d2] \in Head(ops[o].st).acts
(* The events the operations in flight hold in their frames. *)
FrameEvents(o) ==
  UNION {Range(ops[o].st[i].evs) \cup {ops[o].st[i].ev} : i \in DOMAIN ops[o].st}

PendingEvents == UNION {FrameEvents(o) : o \in OpIds}

(* The item instances an entity has held: the one it started with and
   those of its pickup events. *)
ItemsEver(x) ==
  (IF x = "a" THEN {HeldItem} ELSE {})
    \cup {p.item : p \in {q \in AllEvents \cup PendingEvents :
                             q.kind = "pickup" /\ q.ent = x}}

DropDecided(i) ==
  \E o \in OpIds : ops[o].dec.kind = "drop" /\ ops[o].dec.item = i

(* C27: a recorded pickup event names an item instance that was added to
   the actor's persisted inventory (it is there unless a drop of it was
   decided since), and a recorded drop event names an item instance the
   actor held, now removed from the persisted inventory; whether the
   decision came from a command or from a scheduled check. *)
C27_ItemEventsBacked ==
  \A e \in dbEvents :
    /\ e.kind = "pickup" =>
         /\ e.item # NoId
         /\ e.item \in dbEnt[e.ent].items \/ DropDecided(e.item)
    /\ e.kind = "drop" =>
         /\ e.item \in ItemsEver(e.ent)
         /\ e.item \notin dbEnt[e.ent].items
(* C28: whenever no operation is in flight, the world state and the store
   hold the same entities, each with the same position and the same
   inventory. *)
C28_MemoryMatchesStore ==
  Idle =>
    \A e \in EntityIds :
      /\ memEnt[e].present = dbEnt[e].present
      /\ memEnt[e].present =>
           /\ memEnt[e].pos = dbEnt[e].pos
           /\ memEnt[e].items = dbEnt[e].items
(* C29: every event in the recent-events buffer is in the persistent event
   log, whether start-up loading, joinEntity or addEvent put it there. *)
C29_BufferedIsPersisted ==
  \A e \in Range(recentEvents) : \E s \in dbEvents : s.id = e.id

(* A save was rejected, and the buffer holds the spawn event of a join and
   an event of a command. *)
C29_Witness ==
  /\ persistFailed # {}
  /\ \E e \in Range(recentEvents) : e.kind = "spawn" /\ e.id[1] \in OpIds
  /\ \E e \in Range(recentEvents) : e.kind = "userCommand"
(* The drop events of user commands that addEvent has recorded. *)
CommandDrops ==
  {d \in dbEvents : d.kind = "drop" /\ d.id[1] \in OpIds /\ ops[d.id[1]].type = "command"}

(* C30: the drop requests of an actor for one item instance produce at
   most one drop event for it, however their queries interleave. *)
C30_OneDropPerItem ==
  \A d1, d2 \in CommandDrops : (d1.ent = d2.ent /\ d1.item = d2.item) => d1 = d2
====
